---- MODULE Spec2Model ----
(***************************************************************************)
(* Model of the perl-storable encoder of kdar/storable (storable.go).      *)
(*                                                                         *)
(* A Go value handed to the encoder is a record with a field "kind" (the   *)
(* reflect.Kind) and the fields that kind carries.  Byte strings are       *)
(* sequences of numbers 0..255.  The encoder is translated function by     *)
(* function; every function returns the record [e, err, panic]: the        *)
(* encodeState after the call, the error it returned (Nil for nil) and     *)
(* whether it panicked instead of returning.                               *)
(***************************************************************************)
EXTENDS Integers, Sequences, FiniteSets, TLC

VARIABLES
  api,      \* the entry point of the last call: "none", "Marshal", "Encode"
  in,       \* the value handed to the last call
  ret,      \* what the last call gave back: [out, err, panic]
  encE,     \* enc.e : the Encoder's encodeState buffer, kept between calls
  encErr,   \* enc.err
  sent,     \* the chunks the last Encode call handed to the sink enc.w
  fault,    \* the first write of the last call that failed (Nil: none)
  calls     \* number of calls made so far

vars == <<api, in, ret, encE, encErr, sent, fault, calls>>

\* ------------------------------------------------------------ constants
MAGIC == 5
VERSION == 7
SX_ARRAY == 2
SX_HASH == 3
SX_REF == 4
SX_SCALAR == 10

\* error values: nil, the error of the sink, and (k > 0) the error of the
\* k-th write into an encodeState
Nil == 0
SinkErr == -1

\* ------------------------------------------------------------ bounds
MaxCalls == 2
MaxFail == 9

\* ------------------------------------------------------------ bytes
\* binary.Write(w, binary.BigEndian, uint32(n))
U32(n) ==
  << (n \div 16777216) % 256, (n \div 65536) % 256, (n \div 256) % 256, n % 256 >>

\* binary.Write(w, binary.BigEndian, uint8(n)) : the conversion truncates
U8(n) == << n % 256 >>

RECURSIVE FormatUint(_)
\* strconv.FormatUint(n, 10)
FormatUint(n) ==
  IF n < 10 THEN << 48 + n >> ELSE FormatUint(n \div 10) \o << 48 + (n % 10) >>

\* strconv.FormatInt(n, 10)
FormatInt(n) == IF n < 0 THEN <<45>> \o FormatUint(0 - n) ELSE FormatUint(n)

\* digit i (0-based) of the decimal digit string d, "0" outside it
DigitAt(d, i) == IF i >= 0 /\ i < Len(d) THEN 48 + d[i + 1] ELSE 48

\* strconv's %f of the shortest decimal d * 10^(dp - Len(d)), prec digits
\* after the point
FmtF(d, dp, prec) ==
  LET ip == IF dp > 0 THEN [i \in 1..dp |-> DigitAt(d, i - 1)] ELSE <<48>>
      fp == IF prec > 0
              THEN <<46>> \o [i \in 1..prec |-> DigitAt(d, dp + i - 1)]
              ELSE << >>
  IN  ip \o fp

\* strconv's %e of the same decimal, prec digits after the point
FmtE(d, dp, prec) ==
  LET first == IF Len(d) = 0 THEN <<48>> ELSE << 48 + d[1] >>
      rest  == IF prec > 0
                 THEN <<46>> \o [i \in 1..prec |-> DigitAt(d, i)]
                 ELSE << >>
      exp   == IF Len(d) = 0 THEN 0 ELSE dp - 1
      sign  == IF exp < 0 THEN <<45>> ELSE <<43>>
      a     == IF exp < 0 THEN 0 - exp ELSE exp
      ed    == IF a < 10 THEN << 48, 48 + a >> ELSE FormatUint(a)
  IN  first \o rest \o <<101>> \o sign \o ed

\* strconv.FormatFloat(f, 'g', -1, bits) where f's shortest decimal for its
\* bit width is 0.d1d2... * 10^dp (d empty for zero)
FormatFloat(neg, d, dp) ==
  LET exp == dp - 1
      body == IF exp < -4 \/ exp >= 6
                THEN FmtE(d, dp, Len(d) - 1)
                ELSE FmtF(d, dp, IF Len(d) > dp THEN Len(d) - dp ELSE 0)
  IN  (IF neg THEN <<45>> ELSE << >>) \o body

\* strings.Split(tag, ",")[0]
RECURSIVE SplitFirst(_)
SplitFirst(tag) ==
  IF tag = << >> \/ Head(tag) = 44 THEN << >>
  ELSE << Head(tag) >> \o SplitFirst(Tail(tag))

\* ------------------------------------------------------------ values
\* reflect.Value.Len is defined for these kinds and panics for the others
HasLen(value) == value.kind \in {"Array", "Chan", "Map", "Slice", "String"}

\* reflect.Value.Len
ValueLen(value) ==
  CASE value.kind = "String" -> Len(value.s)
    [] value.kind \in {"Slice", "Array"} -> Len(value.elems)
    [] OTHER -> value.len

\* ------------------------------------------------------------ encodeState
\* An encodeState is its bytes.Buffer (buf).  The encoder writes into it
\* through io.Writer and checks the error of each write.  n counts the writes
\* made during the call and failAt names the write that reports an error.
\* bytes.Buffer reports none, so Spec runs every call with failAt = 0;
\* SpecFault lets one write fail, the case those error checks are written for.
NewState(n, failAt) == [buf |-> << >>, n |-> n, failAt |-> failAt]

\* results of the encoder's functions
Done(e) == [e |-> e, err |-> Nil, panic |-> FALSE]
Fail(e, err) == [e |-> e, err |-> err, panic |-> FALSE]
Panic(e) == [e |-> e, err |-> Nil, panic |-> TRUE]
Stopped(r) == r.panic \/ r.err # Nil

\* one write into the encodeState through io.Writer: binary.Write(e, ...),
\* e.Write(...), e.WriteString(...)
Write(e, bs) ==
  LET k == e.n + 1 IN
  IF k = e.failAt
    THEN Fail([e EXCEPT !.n = k], k)
    ELSE Done([e EXCEPT !.buf = @ \o bs, !.n = k])

\* a scalar: the tag, the one-byte length, the text
WriteScalar(e, lenByte, text) ==
  LET w1 == Write(e, U8(SX_SCALAR)) IN
  IF w1.err # Nil THEN w1 ELSE
  LET w2 == Write(w1.e, lenByte) IN
  IF w2.err # Nil THEN w2 ELSE
  Write(w2.e, text)

marshalBool(e, value) ==
  WriteScalar(e, U8(1), IF value.b THEN FormatInt(1) ELSE FormatInt(0))

marshalString(e, value) == WriteScalar(e, U8(ValueLen(value)), value.s)

marshalInt(e, value) ==
  LET s == FormatInt(value.n) IN WriteScalar(e, U8(Len(s)), s)

marshalUint(e, value) ==
  LET s == FormatUint(value.n) IN WriteScalar(e, U8(Len(s)), s)

marshalFloat(e, value) ==
  LET s == FormatFloat(value.neg, value.d, value.dp) IN
  WriteScalar(e, U8(Len(s)), s)

RECURSIVE marshalValue(_, _)
RECURSIVE marshalStruct(_, _)
RECURSIVE marshalSlice(_, _)
RECURSIVE structLoop(_, _, _, _)
RECURSIVE sliceLoop(_, _, _)

\* omitField with unexported fields left out, as encoding/json leaves them
omitField_skipUnexported(f) ==
  IF ~(f.name # << >> /\ f.name[1] >= 65 /\ f.name[1] <= 90) THEN "skip" ELSE
  IF SplitFirst(f.tag) = <<111, 109, 105, 116, 101, 109, 112, 116, 121>>
    THEN IF ~HasLen(f.val) THEN "panic"
         ELSE IF ValueLen(f.val) = 0 THEN "skip" ELSE "keep"
    ELSE "keep"

\* the field's directive: "skip" (continue), "keep", or "panic" when
\* fieldValue.Len() is called on a kind that has no length
omitField(f) ==
  IF SplitFirst(f.tag) = <<111, 109, 105, 116, 101, 109, 112, 116, 121>>
    THEN IF ~HasLen(f.val) THEN "panic"
         ELSE IF ValueLen(f.val) = 0 THEN "skip" ELSE "keep"
    ELSE "keep"

\* marshalField writing the hash key before the value
marshalField_keyFirst(e2, f) ==
  LET w1 == Write(e2, U32(Len(f.name)))
      w2 == Write(w1.e, f.name)
  IN  IF w2.err # Nil THEN w2 ELSE marshalValue(w2.e, f.val)

\* one entry of a struct: the value, then the hash key.  The error of the
\* key-length write is dropped.
marshalField(e2, f) ==
  LET r == marshalValue(e2, f.val) IN
  IF Stopped(r) THEN r ELSE
  LET w1 == Write(r.e, U32(Len(f.name))) IN
  Write(w1.e, f.name)

\* the loop over the fields; total is totalSize
structLoop(e2, total, fields, i) ==
  IF i > Len(fields) THEN [r |-> Done(e2), total |-> total] ELSE
  LET o == omitField(fields[i]) IN
  IF o = "panic" THEN [r |-> Panic(e2), total |-> total] ELSE
  IF o = "skip" THEN structLoop(e2, total, fields, i + 1) ELSE
  LET r == marshalField(e2, fields[i]) IN
  IF Stopped(r) THEN [r |-> r, total |-> total + 1]
  ELSE structLoop(r.e, total + 1, fields, i + 1)

\* binary.Write(e, binary.BigEndian, uint32(totalSize)); n is NumField()
writeCount(e, total, n) == Write(e, U32(total))

marshalStruct(e, value) ==
  LET w1 == Write(e, U8(SX_HASH)) IN
  IF w1.err # Nil THEN w1 ELSE
  LET l == structLoop(NewState(w1.e.n, e.failAt), 0, value.fields, 1)
      e1 == [w1.e EXCEPT !.n = l.r.e.n]
  IN
  IF l.r.panic THEN Panic(e1) ELSE
  IF l.r.err # Nil THEN Fail(e1, l.r.err) ELSE
  LET w2 == writeCount(e1, l.total, Len(value.fields)) IN
  IF w2.err # Nil THEN w2 ELSE
  Write(w2.e, l.r.e.buf)

sliceLoop(e, elems, i) ==
  IF i > Len(elems) THEN Done(e) ELSE
  LET r == marshalValue(e, elems[i]) IN
  IF Stopped(r) THEN r ELSE sliceLoop(r.e, elems, i + 1)

marshalSlice(e, value) ==
  LET w1 == Write(e, U8(SX_ARRAY)) IN
  IF w1.err # Nil THEN w1 ELSE
  LET w2 == Write(w1.e, U32(ValueLen(value))) IN
  IF w2.err # Nil THEN w2 ELSE
  sliceLoop(w2.e, value.elems, 1)

\* the switch on typ.Kind(); value.Type() panics on the zero Value, and a
\* kind the switch does not name leaves err nil
marshalKind(e, value) ==
  CASE value.kind = "Invalid" -> Panic(e)
    [] value.kind = "Struct" -> marshalStruct(e, value)
    [] value.kind \in {"Slice", "Array"} -> marshalSlice(e, value)
    [] value.kind = "Bool" -> marshalBool(e, value)
    [] value.kind = "String" -> marshalString(e, value)
    [] value.kind = "Int" -> marshalInt(e, value)
    [] value.kind = "Uint" -> marshalUint(e, value)
    [] value.kind = "Float" -> marshalFloat(e, value)
    [] OTHER -> Done(e)

marshalValue(e, value) ==
  IF value.kind = "Ptr"
    THEN LET w == Write(e, U8(SX_REF)) IN
         IF w.err # Nil THEN w ELSE marshalKind(w.e, value.elem)
    ELSE marshalKind(e, value)

\* encodeState.marshal: the header, then the value
marshal(e, v) ==
  LET w1 == Write(e, U8(MAGIC)) IN
  IF w1.err # Nil THEN w1 ELSE
  LET w2 == Write(w1.e, U8(VERSION)) IN
  IF w2.err # Nil THEN w2 ELSE
  marshalValue(w2.e, v)

\* Reset that keeps the accumulated bytes
Reset_keep(e) == e

\* bytes.Buffer.Reset
Reset(e) == [e EXCEPT !.buf = << >>]

\* ------------------------------------------------------------ inputs
StringV(s) == [kind |-> "String", s |-> s]
IntV(n) == [kind |-> "Int", n |-> n]
UintV(n) == [kind |-> "Uint", n |-> n]
BoolV(b) == [kind |-> "Bool", b |-> b]
FloatV(neg, d, dp) == [kind |-> "Float", neg |-> neg, d |-> d, dp |-> dp]
PtrV(elem) == [kind |-> "Ptr", elem |-> elem]
SliceV(elems) == [kind |-> "Slice", elems |-> elems]
StructV(fields) == [kind |-> "Struct", fields |-> fields]
MapV(n) == [kind |-> "Map", len |-> n]
ChanV(n) == [kind |-> "Chan", len |-> n]
FuncV == [kind |-> "Func"]
InterfaceV == [kind |-> "Interface"]
\* the zero reflect.Value: reflect.ValueOf(nil), and Elem() of a nil pointer
Invalid == [kind |-> "Invalid"]
Field(name, tag, val) == [name |-> name, tag |-> tag, val |-> val]

\* the texts used ("Name", "Omit", "nested", "Kevin", "hey", "there")
sName == <<78, 97, 109, 101>>
sOmit == <<79, 109, 105, 116>>
snested == <<110, 101, 115, 116, 101, 100>>
sKevin == <<75, 101, 118, 105, 110>>
shey == <<104, 101, 121>>
sthere == <<116, 104, 101, 114, 101>>
\* a text of n bytes
Text(n) == [i \in 1..n |-> 97]

\* the storable tags: none, "omitempty", "omitempty,x", "omit"
tagOmitempty == <<111, 109, 105, 116, 101, 109, 112, 116, 121>>
Tags == { << >>, tagOmitempty, tagOmitempty \o <<44, 120>>, <<111, 109, 105, 116>> }

Scalars ==
  { StringV(<< >>), StringV(sKevin), StringV(Text(255)), StringV(Text(256)),
    IntV(1234), IntV(-12), UintV(7), BoolV(TRUE), BoolV(FALSE),
    FloatV(FALSE, <<5, 5, 5>>, 1), FloatV(FALSE, <<1>>, 7),
    FloatV(TRUE, <<2, 5>>, -4) }

Unsupported == { MapV(2), ChanV(0), FuncV }

Nested == StructV(<< Field(sName, << >>, StringV(sKevin)) >>)

Slices ==
  { SliceV(<< >>), SliceV(<< StringV(shey), StringV(sthere) >>),
    SliceV(<< IntV(1234), InterfaceV, PtrV(Nested) >>) }

Pointers ==
  { PtrV(StringV(sKevin)), PtrV(Nested), PtrV(PtrV(StringV(sKevin))),
    PtrV(SliceV(<< StringV(shey) >>)), PtrV(MapV(2)), PtrV(Invalid) }

\* the values of the fields that carry each of the four tags
FieldVals == { StringV(<< >>), StringV(sKevin), IntV(1234), MapV(0) }

NameField == Field(sName, << >>, StringV(sKevin))

Structs ==
  { StructV(<< Field(sOmit, t, x) >>) : t \in Tags, x \in FieldVals }
  \cup { StructV(<< Field(sOmit, t, x) >>) :
           t \in { << >>, tagOmitempty }, x \in { SliceV(<< >>), PtrV(Nested) } }
  \cup { StructV(<< NameField, Field(sOmit, t, x) >>) :
           t \in { << >>, tagOmitempty },
           x \in { StringV(<< >>), StringV(sKevin), Nested,
                   SliceV(<< StringV(shey), StringV(sthere) >>) } }
  \cup { StructV(<< Field(sOmit, t, x), NameField >>) :
           t \in { << >>, tagOmitempty }, x \in { StringV(<< >>), IntV(1234) } }
  \cup { StructV(<< Field(snested, t, x), NameField >>) :
           t \in { << >>, tagOmitempty },
           x \in { PtrV(Nested), StringV(<< >>), StringV(sKevin) } }
  \cup { StructV(<< >>),
         StructV(<< Field(snested, << >>, PtrV(Nested)) >>),
         StructV(<< NameField,
                    Field(sOmit, << >>,
                          StructV(<< NameField,
                                     Field(sOmit, tagOmitempty, StringV(<< >>)) >>)) >>) }

Inputs == Scalars \cup Unsupported \cup { Invalid } \cup Slices \cup Pointers \cup Structs

\* the inputs of the runs in which a write into the encodeState may fail
FaultInputs ==
  { StringV(sKevin), BoolV(TRUE), PtrV(Nested), Nested, MapV(2),
    SliceV(<< StringV(shey), StringV(sthere) >>),
    StructV(<< NameField, Field(sOmit, tagOmitempty, StringV(<< >>)) >>) }

\* ------------------------------------------------------------ the program
NoRet == [out |-> << >>, err |-> Nil, panic |-> FALSE]

Init ==
  /\ api = "none"
  /\ in = Invalid
  /\ ret = NoRet
  /\ encE = << >>
  /\ encErr = Nil
  /\ sent = << >>
  /\ fault = Nil
  /\ calls = 0

\* the first write into the encodeState that failed during a run of marshal
FirstFault(r, failAt) == IF failAt > 0 /\ r.e.n >= failAt THEN failAt ELSE Nil

\* NewEncoder(w)
NewEncoder ==
  /\ api' = "NewEncoder"
  /\ encE' = << >>
  /\ encErr' = Nil
  /\ sent' = << >>
  /\ UNCHANGED <<in, ret, fault, calls>>

\* Marshal(v)
Marshal(v, failAt) ==
  /\ calls < MaxCalls
  /\ LET r == marshal(NewState(0, failAt), v) IN
     /\ ret' = [out |-> IF r.panic THEN << >> ELSE r.e.buf,
                err |-> r.err, panic |-> r.panic]
     /\ fault' = FirstFault(r, failAt)
  /\ api' = "Marshal"
  /\ in' = v
  /\ calls' = calls + 1
  /\ UNCHANGED <<encE, encErr, sent>>

\* enc.Encode(v); sinkOk says whether enc.w.Write succeeds
Encode(v, failAt, sinkOk) ==
  /\ calls < MaxCalls
  /\ LET e0 == Reset([buf |-> encE, n |-> 0, failAt |-> failAt])
         r == marshal(e0, v)
         werr == IF sinkOk THEN Nil ELSE SinkErr
     IN
     /\ encE' = r.e.buf
     /\ IF r.panic
          THEN /\ ret' = [out |-> << >>, err |-> Nil, panic |-> TRUE]
               /\ sent' = << >>
               /\ encErr' = encErr
               /\ fault' = FirstFault(r, failAt)
          ELSE /\ ret' = [out |-> << >>, err |-> werr, panic |-> FALSE]
               /\ sent' = << r.e.buf >>
               /\ encErr' = IF werr # Nil THEN werr ELSE encErr
               /\ fault' = IF FirstFault(r, failAt) # Nil
                             THEN FirstFault(r, failAt) ELSE werr
  /\ api' = "Encode"
  /\ in' = v
  /\ calls' = calls + 1

Next ==
  \/ \E v \in Inputs : Marshal(v, 0)
  \/ \E v \in Inputs, sinkOk \in BOOLEAN : Encode(v, 0, sinkOk)
  \/ NewEncoder

Spec == Init /\ [][Next]_vars

\* the same program with a failing write into the encodeState
NextFault ==
  \/ \E v \in FaultInputs, k \in 0..MaxFail : Marshal(v, k)
  \/ \E v \in FaultInputs, k \in 0..MaxFail, sinkOk \in BOOLEAN :
       Encode(v, k, sinkOk)
  \/ NewEncoder

SpecFault == Init /\ [][NextFault]_vars

\* what the last call produced: Marshal's bytes, Encode's chunk
Output == IF api = "Marshal" THEN ret.out
          ELSE IF sent # << >> THEN sent[1] ELSE << >>

Returned == api \in {"Marshal", "Encode"} /\ ~ret.panic

\* ------------------------------------------------------------ reading bytes
At(b, i) == IF i >= 1 /\ i <= Len(b) THEN b[i] ELSE -1
Sub(b, m, n) == [i \in 1..(n - m + 1) |-> At(b, m + i - 1)]
From(b, m) == Sub(b, m, Len(b))
U32At(b, p) ==
  At(b, p) * 16777216 + At(b, p + 1) * 65536 + At(b, p + 2) * 256 + At(b, p + 3)

\* the wire grammar: Value := RefVal | HashVal | ArrayVal | ScalarVal.
\* ParseValue is the position after the Value that starts at p, 0 if none does.
RECURSIVE ParseValue(_, _)
RECURSIVE ParseItems(_, _, _, _)
ParseValue(b, p) ==
  IF p > Len(b) THEN 0 ELSE
  CASE b[p] = SX_REF -> ParseValue(b, p + 1)
    [] b[p] = SX_SCALAR ->
         IF p + 1 <= Len(b) /\ p + 1 + b[p + 1] <= Len(b)
           THEN p + 2 + b[p + 1] ELSE 0
    [] b[p] \in {SX_ARRAY, SX_HASH} ->
         IF p + 4 <= Len(b)
           THEN ParseItems(b, p + 5, U32At(b, p + 1), b[p] = SX_HASH) ELSE 0
    [] OTHER -> 0

\* the position after one Entry (Value keylen key) that starts at p, 0 if none
ParseEntry(b, p) ==
  LET q == ParseValue(b, p) IN
  IF q = 0 \/ q + 3 > Len(b) THEN 0 ELSE
  IF q + 3 + U32At(b, q) > Len(b) THEN 0 ELSE q + 4 + U32At(b, q)

ParseItems(b, p, k, keyed) ==
  IF k = 0 THEN p ELSE
  LET q == IF keyed THEN ParseEntry(b, p) ELSE ParseValue(b, p) IN
  IF q = 0 THEN 0 ELSE ParseItems(b, q, k - 1, keyed)

\* the number of Entries that fill b from p to its end, -1 if they do not
RECURSIVE CountEntries(_, _)
CountEntries(b, p) ==
  IF p = Len(b) + 1 THEN 0 ELSE
  LET q == ParseEntry(b, p) IN
  IF q = 0 THEN -1 ELSE
  LET n == CountEntries(b, q) IN IF n < 0 THEN -1 ELSE n + 1

\* ------------------------------------------------------------ the value tree
\* what a fresh encodeState holds after marshalValue(x), and after marshal(x)
EncBytes(x) == marshalValue(NewState(0, 0), x).e.buf
MarshalRun(x) == marshal(NewState(0, 0), x)

\* the field is left out: the recognised directive and a zero length
Omitted(f) ==
  /\ SplitFirst(f.tag) = tagOmitempty
  /\ HasLen(f.val)
  /\ ValueLen(f.val) = 0

Exported(f) == f.name # << >> /\ f.name[1] >= 65 /\ f.name[1] <= 90

Kept(x) == { i \in 1..Len(x.fields) : ~Omitted(x.fields[i]) }

\* the values the encoder reaches in the tree of v, each with the bytes of
\* the output b that stand for it
RECURSIVE Occ(_, _)
RECURSIVE FieldOcc(_, _, _, _)
RECURSIVE ElemOcc(_, _, _, _)
KindOcc(x, b) ==
  { [val |-> x, bytes |-> b] } \cup
  CASE x.kind = "Struct" -> FieldOcc(x.fields, 1, b, 6)
    [] x.kind \in {"Slice", "Array"} -> ElemOcc(x.elems, 1, b, 6)
    [] OTHER -> {}
Occ(x, b) ==
  IF x.kind = "Ptr"
    THEN { [val |-> x, bytes |-> b] } \cup KindOcc(x.elem, From(b, 2))
    ELSE KindOcc(x, b)
FieldOcc(fields, i, b, off) ==
  IF i > Len(fields) THEN {} ELSE
  IF Omitted(fields[i]) THEN FieldOcc(fields, i + 1, b, off) ELSE
  LET n == Len(EncBytes(fields[i].val)) IN
  Occ(fields[i].val, Sub(b, off, off + n - 1))
    \cup FieldOcc(fields, i + 1, b, off + n + 4 + Len(fields[i].name))
ElemOcc(elems, i, b, off) ==
  IF i > Len(elems) THEN {} ELSE
  LET n == Len(EncBytes(elems[i])) IN
  Occ(elems[i], Sub(b, off, off + n - 1)) \cup ElemOcc(elems, i + 1, b, off + n)

\* the call returned (no panic) with a nil error
Completed == Returned /\ ret.err = Nil

\* the values reached by the last call, with their bytes in its output
Reached == IF Completed THEN Occ(in, From(Output, 3)) ELSE {}

Called == api \in {"Marshal", "Encode"}

\* ------------------------------------------------------------ claims

\* C1: in every struct the encoder reaches, the 4-byte count after the HASH
\* tag is the number of fields that survive the omitempty filter, and exactly
\* that many Entries (Value, key length, key) of the grammar follow it.
HashCountMatchesEntries ==
  \A o \in Reached :
    o.val.kind = "Struct" =>
      /\ At(o.bytes, 1) = SX_HASH
      /\ U32At(o.bytes, 2) = Cardinality(Kept(o.val))
      /\ CountEntries(o.bytes, 6) = U32At(o.bytes, 2)

\* C2: the output of every encode that returns a nil error is the header
\* followed by exactly one well-formed Value of the grammar.
OutputIsHeaderThenOneValue ==
  Completed =>
    /\ At(Output, 1) = MAGIC
    /\ At(Output, 2) = VERSION
    /\ ParseValue(Output, 3) = Len(Output) + 1

\* C3: the encoding of a pointer is the REF tag followed by exactly the
\* encoding of its pointee, whatever the pointee's kind.
RefIsTagThenPointee ==
  (Returned /\ in.kind = "Ptr" /\ in.elem.kind # "Invalid") =>
    From(Output, 3) = <<SX_REF>> \o From(MarshalRun(in.elem).e.buf, 3)

\* the struct x without its field i, and with field i's tag removed
WithoutField(x, i) ==
  StructV(SubSeq(x.fields, 1, i - 1) \o SubSeq(x.fields, i + 1, Len(x.fields)))
Untagged(x, i) == StructV([x.fields EXCEPT ![i].tag = << >>])

\* C4: a field with a directive is skipped exactly when the directive is the
\* recognised one and the value has a length of zero; in every other case the
\* encode completes and the field is encoded like a field without directive.
OmitemptySkipsOnlyEmptyLengths ==
  (Called /\ in.kind = "Struct") =>
    \A i \in 1..Len(in.fields) :
      in.fields[i].tag # << >> =>
        /\ Returned
        /\ Output = MarshalRun(IF Omitted(in.fields[i])
                                 THEN WithoutField(in, i)
                                 ELSE Untagged(in, i)).e.buf

\* C5 as stated: unexported fields are left out of the encoding.
UnexportedFieldsExcluded ==
  (Completed /\ in.kind = "Struct") =>
    Output = MarshalRun(StructV(SelectSeq(in.fields, Exported))).e.buf

\* b holds the bytes x as a contiguous run
Contains(b, x) == \E p \in 1..Len(b) : Sub(b, p, p + Len(x) - 1) = x

\* C5 as amended: an unexported field is handled like an exported one.  Its
\* directive is consulted (an omitted one changes nothing); otherwise it is
\* counted and its value, key length and name are in the output.
UnexportedFieldsEncoded ==
  (Completed /\ in.kind = "Struct") =>
    \A i \in 1..Len(in.fields) :
      ~Exported(in.fields[i]) =>
        LET f == in.fields[i]
            without == MarshalRun(WithoutField(in, i)).e.buf
            entry == EncBytes(f.val) \o U32(Len(f.name)) \o f.name
        IN  IF Omitted(f)
              THEN Output = without
              ELSE /\ U32At(Output, 4) = U32At(without, 4) + 1
                   /\ Len(Output) = Len(without) + Len(entry)
                   /\ Contains(Output, entry)

\* C5 witness: the struct { nested *nested } of the tests was encoded with
\* its one unexported field counted.
UnexportedFieldWitness ==
  /\ api = "Marshal"
  /\ Completed
  /\ in = StructV(<< Field(snested, << >>, PtrV(Nested)) >>)
  /\ U32At(Output, 4) = 1

ScalarLengthByteIsTextLength ==
  \A o \in Reached :
    o.val.kind \in {"Bool", "String", "Int", "Uint", "Float"} =>
      /\ At(o.bytes, 1) = SX_SCALAR
      /\ At(o.bytes, 2) = Len(o.bytes) - 2

\* C8: Marshal of a value of an unsupported kind (nil included) returns the
\* two header bytes and a nil error.
UnsupportedKindIsSkipped ==
  (api = "Marshal" /\ in.kind \in {"Map", "Chan", "Func", "Interface", "Invalid"}) =>
    /\ ~ret.panic
    /\ ret.err = Nil
    /\ ret.out = <<MAGIC, VERSION>>

\* the places of b where the two header bytes stand
HeaderPlaces(b) == { i \in 1..Len(b) : At(b, i) = MAGIC /\ At(b, i + 1) = VERSION }

\* C9: the output of every call that returns starts with the magic and the
\* version byte, holds the header once, and what Encode hands to the sink is
\* one chunk with nothing of an earlier call in it.
HeaderOncePerCall ==
  Returned =>
    /\ HeaderPlaces(Output) = {1}
    /\ api = "Encode" => (Len(sent) = 1 /\ sent[1] = MarshalRun(in).e.buf)

\* C9 witness: a second Encode on an Encoder whose earlier Encode failed at
\* the sink, encoding a struct (so the side buffer was used).
ReusedEncoderWitness ==
  /\ api = "Encode"
  /\ calls = 2
  /\ encErr = SinkErr
  /\ fault = Nil
  /\ Completed
  /\ in.kind = "Struct"
  /\ Len(in.fields) = 2

\* the entries of the fields from i on: value, key length, key
RECURSIVE EntryBytes(_, _)
EntryBytes(fields, i) ==
  IF i > Len(fields) THEN << >> ELSE
  IF Omitted(fields[i]) THEN EntryBytes(fields, i + 1) ELSE
  EncBytes(fields[i].val) \o U32(Len(fields[i].name)) \o fields[i].name
    \o EntryBytes(fields, i + 1)

\* C10: in every struct the encoder reaches, the bytes after the count are
\* the entries of the surviving fields in declaration order, each the
\* field's value, then the 4-byte length of its name, then its name.
EntriesValueThenKey ==
  \A o \in Reached :
    o.val.kind = "Struct" => From(o.bytes, 6) = EntryBytes(o.val.fields, 1)

\* C10 witness: a struct with two surviving fields was encoded.
TwoEntriesWitness ==
  /\ api = "Marshal"
  /\ Completed
  /\ in = StructV(<< Field(sOmit, << >>, IntV(1234)), NameField >>)
  /\ U32At(Output, 4) = 2
====
